---- MODULE Spec2Model ----
(***************************************************************************)
(* Model of hooks/publish_standalone.py (StandalonePublishPlugin):         *)
(*   get_publish_template   - the template selector                        *)
(*   get_publish_path       - the path resolver                            *)
(*   _copy_work_to_publish  - the copy step that stages the work file      *)
(*                                                                         *)
(* A path is a record [dir, file]: dir is the sequence of folder names and *)
(* file the sequence of "."-separated segments of the file name.  The      *)
(* empty string is the path with no folder and no segment.  A FieldSet is  *)
(* a function from a set of key names to string tokens.  An optional       *)
(* property is <<>> (unset, Python None) or <<value>>.                     *)
(***************************************************************************)
EXTENDS Integers, Sequences, FiniteSets, TLC

VARIABLES settings, item, world, hist, last

vars == <<settings, item, world, hist, last>>

----------------------------------------------------------------------------
(* Bounds of the model *)

MaxRules == 2
MaxCalls == 2

----------------------------------------------------------------------------
(* Values *)

NoTemplate == "none"
NoEntity == "none"
EmptyFields == [k \in {} |-> ""]
EmptyPath == [dir |-> <<>>, file |-> <<>>]

Put(f, k, v) == [x \in (DOMAIN f) \cup {k} |-> IF x = k THEN v ELSE f[x]]

Restrict(f, S) == [x \in (DOMAIN f) \cap S |-> f[x]]

RECURSIVE JoinDots(_)
JoinDots(segs) ==
    IF Len(segs) = 0 THEN ""
    ELSE IF Len(segs) = 1 THEN segs[1]
    ELSE segs[1] \o "." \o JoinDots(Tail(segs))

(* Python truthiness of an optional path property: None and "" are falsy. *)
Truthy(opt) == opt # <<>> /\ opt[1] # EmptyPath

----------------------------------------------------------------------------
(* The templating engine: sgtk.templates, a dictionary from template name  *)
(* to template; a template is known here by the set of its keys.           *)

Templates ==
    [t \in {"maya_shot_publish", "maya_asset_publish"} |->
        IF t = "maya_shot_publish"
        THEN {"Shot", "name", "version", "extension"}
        ELSE {"Asset", "name"}]

TemplateKeys(t) == Templates[t]

(* template.missing_keys(fields): the keys of the template with no value. *)
missing_keys(t, fields) == {k \in TemplateKeys(t) : k \notin DOMAIN fields}

(* template.apply_fields(fields): the rendered path, from the values of    *)
(* the template's keys only.                                               *)
apply_fields(t, fields) ==
    LET K == TemplateKeys(t)
        seg(k) == IF k \in K THEN <<fields[k]>> ELSE <<>>
    IN [dir  |-> <<"publish", t>> \o seg("Shot") \o seg("Asset"),
        file |-> seg("name") \o seg("version") \o seg("extension")]

----------------------------------------------------------------------------
(* Path helpers *)

(* self.parent.util.get_file_path_components(path)["extension"]: the bare  *)
(* extension of the file name, without the dot.                            *)
path_extension(path) == path.file[Len(path.file)]

(* os.path.splitext(file_name)[0]: the file name up to its last dot. *)
splitext_name(file) ==
    IF Len(file) > 1 THEN JoinDots(SubSeq(file, 1, Len(file) - 1))
    ELSE JoinDots(file)

(* os.path.dirname(path) *)
dirname(path) == [dir |-> path.dir, file |-> <<>>]

(* get_publish_name of the base hook: the file name of the source path,    *)
(* with its extension.                                                     *)
get_publish_name(it) == it.path.file

(* get_publish_version of the base hook: the version resolver. *)
get_publish_version(it, w) == w.version

(* item.context.as_template_fields(template): the template's keys that the *)
(* context can supply.                                                     *)
as_template_fields(w, t) == Restrict(w.ctx, TemplateKeys(t))

----------------------------------------------------------------------------
(* get_publish_template: the template selector *)

(* item.context.entity.get("type") if item.context.entity else None *)
entity_type_of(it) == it.entity

(* A selector that takes a rule on either condition. *)
rule_matches_either(rule, extension, entity_type) ==
    extension \in rule.ext \/ entity_type = rule.entity_type

rule_matches(rule, extension, entity_type) ==
    extension \in rule.ext /\ entity_type = rule.entity_type

(* A selector that keeps scanning and returns the last rule that matches. *)
scan_rules_last(rules, extension, entity_type) ==
    LET hits == {i \in 1..Len(rules) :
                    extension \in rules[i].ext
                    /\ entity_type = rules[i].entity_type}
    IN IF hits = {} THEN 0
       ELSE CHOOSE i \in hits : \A j \in hits : i >= j

(* The for loop over the rules: the index of the rule it returns at, 0     *)
(* when it runs to the end.                                                *)
scan_rules(rules, extension, entity_type) ==
    LET hits == {i \in 1..Len(rules) :
                    rule_matches(rules[i], extension, entity_type)}
    IN IF hits = {} THEN 0
       ELSE CHOOSE i \in hits : \A j \in hits : i <= j

(* self.sgtk.templates[name]: a KeyError when the name is not a template. *)
lookup_template(name) ==
    IF name \in DOMAIN Templates
    THEN [outcome |-> "returned", template |-> name]
    ELSE [outcome |-> "raised", template |-> NoTemplate]

get_publish_template(rules, it) ==
    LET i == scan_rules(rules, path_extension(it.path), entity_type_of(it))
    IN IF i = 0
       THEN [outcome |-> "returned", template |-> NoTemplate, rule |-> 0]
       ELSE [outcome  |-> lookup_template(rules[i].template).outcome,
             template |-> lookup_template(rules[i].template).template,
             rule     |-> i]

----------------------------------------------------------------------------
(* get_publish_path: the path resolver *)

(* A context branch that lets the context overwrite name, version and     *)
(* extension.                                                              *)
context_fields_context_wins(it, w, pt) ==
    LET K  == TemplateKeys(pt)
        c  == Restrict(w.ctx, K)
        keep(f, k, v) == IF k \in DOMAIN c THEN f ELSE Put(f, k, v)
        f1 == IF "name" \in K
              THEN keep(c, "name", splitext_name(it.path.file))
              ELSE c
        f2 == IF "version" \in K
              THEN keep(f1, "version", w.version)
              ELSE f1
        f3 == IF "extension" \in K
              THEN keep(f2, "extension", path_extension(it.path))
              ELSE f2
    IN [fields |-> f3,
        calls  |-> <<"as_template_fields">>
                   \o (IF "name" \in K THEN <<"get_publish_name">> ELSE <<>>)
                   \o (IF "version" \in K THEN <<"get_publish_version">> ELSE <<>>)
                   \o (IF "extension" \in K THEN <<"get_file_path_components">> ELSE <<>>)]

(* The context branch: the fields of the context, then name, version and   *)
(* extension, each one only when the publish template declares the key.    *)
context_fields(it, w, pt) ==
    LET K  == TemplateKeys(pt)
        f0 == as_template_fields(w, pt)
        f1 == IF "name" \in K
              THEN Put(f0, "name", splitext_name(get_publish_name(it)))
              ELSE f0
        f2 == IF "version" \in K
              THEN Put(f1, "version", get_publish_version(it, w))
              ELSE f1
        f3 == IF "extension" \in K
              THEN Put(f2, "extension", path_extension(it.path))
              ELSE f2
    IN [fields |-> f3,
        calls  |-> <<"as_template_fields">>
                   \o (IF "name" \in K THEN <<"get_publish_name">> ELSE <<>>)
                   \o (IF "version" \in K THEN <<"get_publish_version">> ELSE <<>>)
                   \o (IF "extension" \in K THEN <<"get_file_path_components">> ELSE <<>>)]

(* A gathering of fields that reads the fields of a work template that    *)
(* did not validate.                                                       *)
gather_fields_keeps_invalid(it, w, pt) ==
    IF it.work_template # NoTemplate
    THEN [fields |-> w.pathFields, calls |-> <<"validate", "get_fields">>]
    ELSE IF w.discovered # NoTemplate
         THEN [fields |-> w.pathFields,
               calls  |-> <<"template_from_path", "get_fields">>]
         ELSE [fields |-> as_template_fields(w, pt),
               calls  |-> <<"template_from_path", "as_template_fields">>]

(* The if / elif that gathers the fields, for a publish template pt.  The  *)
(* initial value of fields, the empty list, has no key.                    *)
gather_fields(it, w, pt) ==
    IF it.work_template # NoTemplate
    THEN IF w.validates
         THEN [fields |-> w.pathFields, calls |-> <<"validate", "get_fields">>]
         ELSE [fields |-> EmptyFields, calls |-> <<"validate">>]
    ELSE IF w.discovered # NoTemplate
         THEN [fields |-> w.pathFields,
               calls  |-> <<"template_from_path", "get_fields">>]
         ELSE [fields |-> context_fields(it, w, pt).fields,
               calls  |-> <<"template_from_path">>
                          \o context_fields(it, w, pt).calls]

(* "if not publish_path: publish_path = path" *)
publish_in_place(path, calls, fields, pt) ==
    [outcome |-> "returned", value |-> path, via |-> "in_place",
     calls |-> calls, fields |-> fields, template |-> pt]

(* The part of get_publish_path that uses the publish template. *)
apply_publish_template(it, w, pt) ==
    LET g == gather_fields(it, w, pt)
        calls == <<"get_publish_template">> \o g.calls \o <<"missing_keys">>
    IN IF missing_keys(pt, g.fields) # {}
       THEN publish_in_place(it.path, calls, g.fields, pt)
       ELSE IF apply_fields(pt, g.fields) = EmptyPath
       THEN publish_in_place(it.path, calls \o <<"apply_fields">>, g.fields, pt)
       ELSE [outcome |-> "returned", value |-> apply_fields(pt, g.fields),
             via |-> "template", calls |-> calls \o <<"apply_fields">>,
             fields |-> g.fields, template |-> pt]

(* get_publish_path after the override test. *)
resolve_from_templates(rules, it, w) ==
    LET sel == get_publish_template(rules, it)
    IN IF sel.outcome = "raised"
       THEN [outcome |-> "raised", value |-> EmptyPath, via |-> "error",
             calls |-> <<"get_publish_template">>, fields |-> EmptyFields,
             template |-> NoTemplate]
       ELSE IF sel.template = NoTemplate
       THEN publish_in_place(it.path, <<"get_publish_template">>,
                             EmptyFields, NoTemplate)
       ELSE apply_publish_template(it, w, sel.template)

(* A resolver without the override test. *)
get_publish_path_ignores_override(rules, it, w) ==
    resolve_from_templates(rules, it, w)

get_publish_path(rules, it, w) ==
    IF Truthy(it.publish_path)
    THEN [outcome |-> "returned", value |-> it.publish_path[1],
          via |-> "override", calls |-> <<>>, fields |-> EmptyFields,
          template |-> NoTemplate]
    ELSE resolve_from_templates(rules, it, w)

(* A resolver that drops the item's work template when it publishes in    *)
(* place.                                                                  *)
item_after_drops_work_template(it, res) ==
    IF res.via = "in_place"
    THEN [it EXCEPT !.work_template = NoTemplate]
    ELSE it

(* get_publish_path assigns only local variables: the item and the rule    *)
(* list after a call are the ones before it.                               *)
item_after_get_publish_path(it, res) == it

settings_after_get_publish_path(rules, res) == rules

----------------------------------------------------------------------------
(* _copy_work_to_publish; io is what the file system does:                 *)
(* "ok", "ensure_fails" or "copy_fails".                                   *)

(* A copy step that absorbs the failures of the file system. *)
copy_files_absorbs_failure(source_path, publish_path, io) ==
    [outcome |-> "returned", error |-> <<>>,
     calls |-> IF io = "ensure_fails"
               THEN << <<"ensure_folder_exists", dirname(publish_path)>> >>
               ELSE << <<"ensure_folder_exists", dirname(publish_path)>>,
                       <<"copy_file", source_path, publish_path>> >>]

copy_files(source_path, publish_path, io) ==
    IF io = "ensure_fails"
    THEN [outcome |-> "raised", error |-> <<source_path, publish_path>>,
          calls |-> << <<"ensure_folder_exists", dirname(publish_path)>> >>]
    ELSE IF io = "copy_fails"
    THEN [outcome |-> "raised", error |-> <<source_path, publish_path>>,
          calls |-> << <<"ensure_folder_exists", dirname(publish_path)>>,
                       <<"copy_file", source_path, publish_path>> >>]
    ELSE [outcome |-> "returned", error |-> <<>>,
          calls |-> << <<"ensure_folder_exists", dirname(publish_path)>>,
                       <<"copy_file", source_path, publish_path>> >>]

copy_work_to_publish(rules, it, w, io) ==
    LET res == get_publish_path(rules, it, w)
    IN IF res.outcome = "raised"
       THEN [op |-> "_copy_work_to_publish", outcome |-> "raised",
             source |-> it.path, publish |-> EmptyPath, resolved |-> FALSE,
             io |-> io, error |-> <<>>, calls |-> <<>>]
       ELSE IF it.path = res.value
       THEN [op |-> "_copy_work_to_publish", outcome |-> "returned",
             source |-> it.path, publish |-> res.value, resolved |-> TRUE,
             io |-> io, error |-> <<>>, calls |-> <<>>]
       ELSE [op |-> "_copy_work_to_publish",
             outcome |-> copy_files(it.path, res.value, io).outcome,
             source |-> it.path, publish |-> res.value, resolved |-> TRUE,
             io |-> io,
             error |-> copy_files(it.path, res.value, io).error,
             calls |-> copy_files(it.path, res.value, io).calls]

----------------------------------------------------------------------------
(* Inputs *)

EntityTypes == {"Shot", "Asset"}

(* The rules a configuration is built from: a rule per entity type as in   *)
(* the comment of the settings property, a rule that names a template the  *)
(* engine does not have, and a rule for the upper-case extension.          *)
RuleChoices ==
    { [ext |-> {"ma", "mb"}, entity_type |-> "Shot",
       template |-> "maya_shot_publish"],
      [ext |-> {"ma", "mb"}, entity_type |-> "Asset",
       template |-> "maya_asset_publish"],
      [ext |-> {"ma", "MA"}, entity_type |-> "Shot",
       template |-> "maya_scene_publish"],
      [ext |-> {"MA"}, entity_type |-> "Shot",
       template |-> "maya_asset_publish"] }

RuleLists == UNION {[1..n -> RuleChoices] : n \in 0..MaxRules}

SourcePaths ==
    { [dir |-> <<"project", "work">>, file |-> <<"scene", "v001", "ma">>],
      [dir |-> <<"tmp">>, file |-> <<"scene", "MA">>] }

OverridePath == [dir |-> <<"project", "out">>, file |-> <<"final", "ma">>]

Items ==
    [path : SourcePaths,
     entity : EntityTypes \cup {NoEntity},
     work_template : {NoTemplate, "maya_shot_work"},
     publish_path : {<<>>, <<EmptyPath>>, <<OverridePath>>}]

(* What work_template.get_fields(path) can give. *)
PathFieldChoices ==
    { [k \in {"Shot", "Asset", "name", "version", "extension"} |->
          CASE k = "Shot" -> "s010"
            [] k = "Asset" -> "hero"
            [] k = "name" -> "scene"
            [] k = "version" -> "v001"
            [] OTHER -> "ma"],
      [k \in {"name", "version", "extension"} |->
          CASE k = "name" -> "scene"
            [] k = "version" -> "v001"
            [] OTHER -> "ma"] }

(* What the context knows. *)
ContextChoices ==
    { EmptyFields,
      [k \in {"Shot"} |-> "s010"],
      [k \in {"Shot", "name", "version"} |->
          CASE k = "Shot" -> "s010"
            [] k = "name" -> "from_context"
            [] OTHER -> "v900"] }

Worlds ==
    [validates : BOOLEAN,
     discovered : {NoTemplate, "maya_shot_work"},
     pathFields : PathFieldChoices,
     ctx : ContextChoices,
     version : {"v002"}]

IoChoices == {"ok", "ensure_fails", "copy_fails"}

----------------------------------------------------------------------------
(* The state machine *)

Init ==
    /\ settings \in RuleLists
    /\ item \in Items
    /\ world \in Worlds
    /\ hist = <<>>
    /\ last = [op |-> "none"]

GetPublishTemplate ==
    /\ last' = [op |-> "get_publish_template",
                outcome |-> get_publish_template(settings, item).outcome,
                template |-> get_publish_template(settings, item).template,
                rule |-> get_publish_template(settings, item).rule]
    /\ UNCHANGED <<settings, item, world, hist>>

GetPublishPath ==
    /\ Len(hist) < MaxCalls
    /\ LET res == get_publish_path(settings, item, world)
       IN /\ hist' = Append(hist, res)
          /\ item' = item_after_get_publish_path(item, res)
          /\ settings' = settings_after_get_publish_path(settings, res)
    /\ UNCHANGED <<world, last>>

CopyWorkToPublish ==
    /\ \E io \in IoChoices :
          last' = copy_work_to_publish(settings, item, world, io)
    /\ UNCHANGED <<settings, item, world, hist>>

Next == GetPublishTemplate \/ GetPublishPath \/ CopyWorkToPublish

Spec == Init /\ [][Next]_vars

----------------------------------------------------------------------------
(* Properties.  The vocabulary below restates the conditions of the        *)
(* properties on the inputs, independently of the operators above.         *)

HasOverride == item.publish_path # <<>> /\ item.publish_path[1] # EmptyPath

ItemExtension == item.path.file[Len(item.path.file)]

MatchingRules ==
    {i \in 1..Len(settings) :
        /\ ItemExtension \in settings[i].ext
        /\ item.entity = settings[i].entity_type}

FirstMatchingRule == CHOOSE i \in MatchingRules : \A j \in MatchingRules : i <= j

(* The publish template of the item: the template of the first matching   *)
(* rule, when the engine has it.                                           *)
MatchedTemplate ==
    IF MatchingRules = {} THEN NoTemplate
    ELSE IF settings[FirstMatchingRule].template \in DOMAIN Templates
    THEN settings[FirstMatchingRule].template
    ELSE NoTemplate

Calls(r) == {r.calls[n] : n \in 1..Len(r.calls)}

Results == {hist[n] : n \in 1..Len(hist)}

(* C1: an item with an explicit publish-path override gets exactly that    *)
(* path from get_publish_path, and neither the template selector nor any   *)
(* template is consulted, whatever the rules, work template and context.   *)
C1_OverrideReturned ==
    HasOverride =>
        \A r \in Results :
            /\ r.outcome = "returned"
            /\ r.value = item.publish_path[1]
            /\ r.calls = <<>>

(* C1 witness: an override was returned although a rule matched the item  *)
(* and a work template was declared and valid.                             *)
C1_Witness ==
    /\ Len(hist) > 0
    /\ HasOverride
    /\ MatchedTemplate # NoTemplate
    /\ item.work_template # NoTemplate
    /\ world.validates
    /\ hist[1].value = OverridePath

(* C2 as stated: when no rule matches the item's extension and entity      *)
(* category, get_publish_path returns the unmodified source path.          *)
C2_NoRuleSourcePath ==
    MatchingRules = {} =>
        \A r \in Results : r.outcome = "returned" /\ r.value = item.path

(* C2 amended: when no rule matches and the item has no override,          *)
(* get_publish_path returns the unmodified source path.                    *)
C2_NoRuleNoOverrideSourcePath ==
    (MatchingRules = {} /\ ~HasOverride) =>
        \A r \in Results : r.outcome = "returned" /\ r.value = item.path

(* C2 witness: rules are configured, none matches, a valid work template   *)
(* is declared and the source path came back.                              *)
C2_Witness ==
    /\ Len(hist) > 0
    /\ Len(settings) > 0
    /\ MatchingRules = {}
    /\ ~HasOverride
    /\ item.work_template # NoTemplate
    /\ world.validates
    /\ hist[1].value = item.path

(* C3 as stated: every call gives a publish path (the override, or the    *)
(* path rendered from the accumulated fields) if and only if an override   *)
(* was supplied, or a publish template matched and none of its keys is     *)
(* missing from the fields; in every other case it returns the source      *)
(* path unchanged.                                                         *)
C3_PublishPathIff ==
    \A r \in Results :
        LET filled == /\ MatchedTemplate # NoTemplate
                      /\ TemplateKeys(MatchedTemplate) \subseteq DOMAIN r.fields
        IN /\ (r.via \in {"override", "template"}) <=> (HasOverride \/ filled)
           /\ r.via = "override" => r.value = item.publish_path[1]
           /\ r.via = "template" =>
                 /\ r.template = MatchedTemplate
                 /\ r.value = apply_fields(MatchedTemplate, r.fields)
           /\ ~(HasOverride \/ filled) =>
                 /\ r.outcome = "returned"
                 /\ r.value = item.path

(* C4 as stated: get_publish_path never ends in a raised error. *)
C4_NeverFails ==
    \A r \in Results : r.outcome = "returned"

(* The keys of the matched template that are not name, version or        *)
(* extension and that the context cannot supply.                           *)
UnreachableKeys ==
    IF MatchedTemplate = NoTemplate THEN {}
    ELSE {k \in TemplateKeys(MatchedTemplate) \ {"name", "version", "extension"} :
             k \notin DOMAIN world.ctx}

(* The fields are extracted from the source path by a work template: the  *)
(* declared one when it validates, or, with none declared, a discovered    *)
(* one.                                                                    *)
FieldsFromPath ==
    \/ item.work_template # NoTemplate /\ world.validates
    \/ item.work_template = NoTemplate /\ world.discovered # NoTemplate

(* C5 as stated: when the matched publish template requires a key that    *)
(* the context cannot supply and that is not name, version or extension,   *)
(* get_publish_path returns the source path and does not raise, whatever   *)
(* work template is declared or discoverable.                              *)
C5_UnreachableKeyInPlace ==
    (~HasOverride /\ UnreachableKeys # {}) =>
        \A r \in Results : r.outcome = "returned" /\ r.value = item.path

(* C5 amended: the same, unless a work template (the declared one when it *)
(* validates, or one discovered from the path when none is declared)       *)
(* extracts those keys from the source path.                               *)
C5_UnreachableKeyInPlaceUnlessFromPath ==
    (/\ ~HasOverride
     /\ UnreachableKeys # {}
     /\ ~(FieldsFromPath /\ UnreachableKeys \subseteq DOMAIN world.pathFields)) =>
        \A r \in Results : r.outcome = "returned" /\ r.value = item.path

(* C5 witness: the scenario of the specification: a declared work         *)
(* template that does not validate, no discoverable template, a context    *)
(* without the key, and the source path came back.                         *)
C5_Witness ==
    /\ Len(hist) > 0
    /\ ~HasOverride
    /\ UnreachableKeys # {}
    /\ item.work_template # NoTemplate
    /\ ~world.validates
    /\ world.discovered = NoTemplate
    /\ hist[1].outcome = "returned"
    /\ hist[1].value = item.path

ExpectedName ==
    IF item.path.file = <<"scene", "v001", "ma">> THEN "scene.v001" ELSE "scene"

ExpectedContextFields ==
    LET K == TemplateKeys(MatchedTemplate)
    IN [k \in (K \cap DOMAIN world.ctx) \cup (K \cap {"name", "version", "extension"}) |->
           CASE k = "name" -> ExpectedName
             [] k = "version" -> world.version
             [] k = "extension" -> ItemExtension
             [] OTHER -> world.ctx[k]]

ContextDerivation ==
    /\ ~HasOverride
    /\ MatchedTemplate # NoTemplate
    /\ item.work_template = NoTemplate
    /\ world.discovered = NoTemplate

(* C8 as stated: when a publish template is matched and the declared work *)
(* template does not validate the source path, get_publish_path asks the   *)
(* engine for a template from the path and, when there is none, takes the  *)
(* fields from the context with the name, version and extension patches;   *)
(* no field comes from the work template that did not validate.            *)
C8_InvalidWorkTemplateStrategyB ==
    (/\ ~HasOverride
     /\ MatchedTemplate # NoTemplate
     /\ item.work_template # NoTemplate
     /\ ~world.validates) =>
        \A r \in Results :
            /\ "template_from_path" \in Calls(r)
            /\ "get_fields" \notin Calls(r) \/ world.discovered # NoTemplate
            /\ world.discovered = NoTemplate => r.fields = ExpectedContextFields

(* C9: in the context branch the fields are the context's fields for the  *)
(* publish template overwritten by name, version and extension, each one   *)
(* assigned exactly when the template declares the key; the version        *)
(* resolver is consulted only there and only for a template with a         *)
(* version key.                                                            *)
C9_ContextFields ==
    \A r \in Results :
        /\ ContextDerivation => r.fields = ExpectedContextFields
        /\ "get_publish_version" \in Calls(r) <=>
              (ContextDerivation /\ "version" \in TemplateKeys(MatchedTemplate))

(* C9 witness: the context supplies name and version too, the template    *)
(* declares them, and the rendered path carries the patched values.        *)
C9_Witness ==
    /\ Len(hist) > 0
    /\ ContextDerivation
    /\ {"name", "version"} \subseteq DOMAIN world.ctx
    /\ {"name", "version"} \subseteq TemplateKeys(MatchedTemplate)
    /\ hist[1].via = "template"
    /\ hist[1].value.file = <<"scene.v001", "v002", "ma">>

(* C10: _copy_work_to_publish does nothing and returns exactly when the   *)
(* source path equals the resolved publish path; otherwise it calls        *)
(* ensure_folder_exists on the folder of the publish path, then copy_file, *)
(* and a failure of either is raised with the source and the publish path. *)
C10_CopyStep ==
    (last.op = "_copy_work_to_publish" /\ last.resolved) =>
        /\ last.calls = <<>> <=> last.source = last.publish
        /\ last.source = last.publish => last.outcome = "returned"
        /\ last.source # last.publish =>
              /\ last.calls[1] =
                    <<"ensure_folder_exists",
                      [dir |-> last.publish.dir, file |-> <<>>]>>
              /\ last.io # "ensure_fails" =>
                    /\ Len(last.calls) = 2
                    /\ last.calls[2] = <<"copy_file", last.source, last.publish>>
              /\ last.io = "ok" => last.outcome = "returned"
              /\ last.io # "ok" =>
                    /\ last.outcome = "raised"
                    /\ last.error = <<last.source, last.publish>>

(* C10 witness: the copy of a file to a rendered publish path failed and  *)
(* the error was raised.                                                   *)
C10_Witness ==
    /\ last.op = "_copy_work_to_publish"
    /\ last.resolved
    /\ last.source # last.publish
    /\ last.io = "copy_fails"
    /\ last.outcome = "raised"
    /\ Len(last.calls) = 2

====
